---- MODULE Spec2Model ----
(***************************************************************************)
(* Model of src/app.py: the "Analyze Reviews" run of the review analyser.  *)
(*                                                                         *)
(*   get_reviews          bounded, token-based pagination over the review  *)
(*                        source (SerpApi google_maps_reviews)             *)
(*   analyze_with_gemini  prompt assembly and the summarization call       *)
(*   main flow            target fetch, optional competitor fetch, report  *)
(*                                                                         *)
(* The review source and the summarization service are the environment:    *)
(* every answer they can give is a nondeterministic choice.                *)
(***************************************************************************)
EXTENDS Integers, Sequences, FiniteSets, TLC

(* ------------------------------ bounds --------------------------------- *)

\* largest value of the "Reviews to Analyze" slider that is explored
MaxTarget == 20
\* short pages of 1..MaxShort records are explored next to full pages
MaxShort == 2

(* ------------------------- program constants --------------------------- *)

\* math.ceil(target_count / 10): reviews per page assumed by get_reviews
PageSize == 10
\* df['rating'] <= 3
NegThreshold == 3
\* neg_reviews[:60]
NegCap == 60
\* st.slider(min_value=10, max_value=100, step=10)
SliderMin == 10
SliderMax == 100
SliderStep == 10

Min(a, b) == IF a < b THEN a ELSE b

\* math.ceil(a / b) for positive integers
CeilDiv(a, b) == (a + b - 1) \div b

\* values the slider can deliver, up to the explored maximum
SliderValues ==
  {t \in SliderMin..Min(SliderMax, MaxTarget) : (t - SliderMin) % SliderStep = 0}

\* COUNTRY_CODES / LANGUAGE_CODES (the entries that are explored)
COUNTRY_CODES == [c \in {"United Kingdom", "United States"} |->
                    IF c = "United Kingdom" THEN "gb" ELSE "us"]
LANGUAGE_CODES == [l \in {"English", "Spanish"} |->
                    IF l = "English" THEN "en" ELSE "es"]

\* target_name / competitor_name of the main flow
target_name == "Main Business"
competitor_name == "Competitor"
Entities == {target_name, competitor_name}

\* str.upper() on the two labels
Upper(name) ==
  CASE name = "Main Business" -> "MAIN BUSINESS"
    [] name = "Competitor"    -> "COMPETITOR"
    [] OTHER                  -> name

(* -------------------------- the review source -------------------------- *)

\* "rating" absent in a source review: review.get("rating") is None
NoRating == 0

\* what kind of ratings a place's reviews carry
RatingProfiles == {"positive", "mixed", "unrated"}

\* rating of the k-th review of a place with the given profile
ProfileRating(prof, k) ==
  CASE prof = "positive" -> 4 + (k % 2)
    [] prof = "mixed"    -> 1 + (k % 5)
    [] OTHER             -> NoRating

\* no "next_page_token" (first request; or a response without one)
NoToken == [place |-> "", pos |-> 0]

\* the continuation token of the page that starts after review number pos
Token(place, pos) == [place |-> place, pos |-> pos]

\* position in the feed a request asks for
StartOf(p) == IF p.next_page_token = NoToken THEN 0 ELSE p.next_page_token.pos

\* the k-th review of the feed as the source sends it
SourceReview(prof, k) == [rating |-> ProfileRating(prof, k), snippet |-> k]

\* numbers of records a page may carry: empty, short, full, oversized
PageLens == (0..MaxShort) \cup {PageSize, PageSize + 1}

\* what a response may say about further pages: no "serpapi_pagination",
\* a pagination block without token, a pagination block with a token
PaginationKinds == {"absent", "notoken", "token"}

\* a page of n reviews answering request p
PageResponse(p, prof, n, pag) ==
  [error      |-> FALSE,
   reviews    |-> [i \in 1..n |-> SourceReview(prof, StartOf(p) + i)],
   pagination |-> pag # "absent",
   token      |-> IF pag = "token" THEN Token(p.place_id, StartOf(p) + n)
                  ELSE NoToken]

\* a response that carries an "error" key and nothing else
ErrorResponse ==
  [error |-> TRUE, reviews |-> <<>>, pagination |-> FALSE, token |-> NoToken]

\* every answer search.get_dict() may return for request p
Responses(p, prof) ==
  {PageResponse(p, prof, n, pag) : n \in PageLens, pag \in PaginationKinds}
    \cup {ErrorResponse}

\* value of `results` before any response has arrived
NoResponse ==
  [error |-> FALSE, reviews |-> <<>>, pagination |-> FALSE, token |-> NoToken]

(* ------------------------ get_reviews: helpers ------------------------- *)

\* max_pages = math.ceil(target_count / 10)
MaxPages(tc) == CeilDiv(tc, PageSize)

\* the initial params dictionary
InitialParams(place_id, api_key, cc, lc) ==
  [engine          |-> "google_maps_reviews",
   place_id        |-> place_id,
   api_key         |-> api_key,
   sort_by         |-> "newestFirst",
   gl              |-> cc,
   hl              |-> lc,
   next_page_token |-> NoToken]

\* the dictionary appended for one source review
Record(review) == [rating |-> review.rating, text |-> review.snippet]

\* for review in new_reviews: reviews_data.append({...})
AppendReviews(data, new_reviews) ==
  data \o [i \in 1..Len(new_reviews) |-> Record(new_reviews[i])]

\* variant: the empty-page check is missing
StopOnEmptyMut(new_reviews) == FALSE

\* if not new_reviews: break
StopOnEmpty(new_reviews) == Len(new_reviews) = 0

\* if len(reviews_data) >= target_count: break
StopOnTarget(data, tc) == Len(data) >= tc

\* both pagination checks: a next_page_token is there to continue with
HasNextToken(res) == res.pagination /\ res.token # NoToken

\* variant: the token of the response is not carried into the next request
NextParamsMut(p, res) == p

\* params["next_page_token"] = results["serpapi_pagination"]["next_page_token"]
NextParams(p, res) == [p EXCEPT !.next_page_token = res.token]

\* variant: the accumulator is returned without the slice
TruncateMut(data, tc) == data

\* pd.DataFrame(reviews_data[:target_count])
Truncate(data, tc) == SubSeq(data, 1, Min(tc, Len(data)))

(* -------------------- analyze_with_gemini: helpers --------------------- *)

\* df[df['rating'] <= 3]: a row without rating compares False
IsNegative(rec) == rec.rating # NoRating /\ rec.rating <= NegThreshold

RECURSIVE NegTexts(_)
\* df[df['rating'] <= 3]['text'].tolist()
NegTexts(df) ==
  IF df = <<>> THEN <<>>
  ELSE IF IsNegative(Head(df)) THEN <<Head(df).text>> \o NegTexts(Tail(df))
       ELSE NegTexts(Tail(df))

\* one "--- REVIEWS FOR <NAME> ---" section of the prompt context
Section(name, df) ==
  LET neg == NegTexts(df) IN
  IF neg = <<>>
  THEN [header |-> Upper(name), placeholder |-> TRUE, bullets |-> <<>>]
  ELSE [header |-> Upper(name), placeholder |-> FALSE,
        bullets |-> SubSeq(neg, 1, Min(NegCap, Len(neg)))]

\* variant: an entity without negative reviews is skipped
AddSectionMut(ctx, name, df) ==
  IF NegTexts(df) = <<>> THEN ctx ELSE Append(ctx, Section(name, df))

\* prompt_context += section   (one pass of the loop over data_dict.items())
AddSection(ctx, name, df) == Append(ctx, Section(name, df))

RECURSIVE PromptContext(_, _)
\* for name, df in data_dict.items(): ...   (items in insertion order)
PromptContext(ctx, items) ==
  IF items = <<>> THEN ctx
  ELSE PromptContext(AddSection(ctx, Head(items).name, Head(items).df),
                     Tail(items))

\* the if len(data_dict) > 1 choice of prompt
BuildPrompt(store, ctx, lang_name) ==
  IF Len(store) > 1
  THEN [template |-> "comparison", lang |-> lang_name, context |-> ctx,
        points_for |-> <<store[1].name, store[2].name>>]
  ELSE [template |-> "single", lang |-> lang_name, context |-> ctx,
        points_for |-> <<>>]

\* outcomes of model.generate_content(prompt)
GeminiOutcomes == {"ok", "network", "auth", "quota"}

\* variant: no try/except around generate_content
GenerateResultMut(outcome) ==
  IF outcome = "ok"
  THEN [raised |-> FALSE, kind |-> "report", detail |-> "ok"]
  ELSE [raised |-> TRUE, kind |-> "exception", detail |-> outcome]

\* what analyze_with_gemini hands back for an outcome of the call
GenerateResult(outcome) ==
  IF outcome = "ok"
  THEN [raised |-> FALSE, kind |-> "report", detail |-> "ok"]
  ELSE [raised |-> FALSE, kind |-> "AI Error", detail |-> outcome]

(* ------------------------------- state --------------------------------- *)

VARIABLES
  pc,                    \* position of the run in the script
  user_api_key,          \* sidebar: SerpApi key ("" when left empty)
  selected_country_name, \* sidebar: search location
  selected_lang_name,    \* sidebar: language
  target_count,          \* sidebar: slider value
  target_id,             \* main place id ("" when left empty)
  competitor_id,         \* competitor place id ("" when left empty)
  profile,               \* the source's content: rating profile per entity
  entity,                \* label of the entity get_reviews is running for
  params,                \* get_reviews: request parameters
  results,               \* get_reviews: the response being examined
  reviews_data,          \* get_reviews: accumulator
  page_count,            \* get_reviews: loop counter
  requests,              \* history: params of every request of this call
  pages,                 \* history: responses delivered during this call
  exit,                  \* history: how each entity's get_reviews ended
  ret,                   \* return value of the get_reviews call just ended
  messages,              \* user-visible st.error / st.warning / status output
  results_store,         \* ordered mapping label -> DataFrame
  prompt_context,        \* analyze_with_gemini: sections assembled so far
  prompt,                \* analyze_with_gemini: the rendered prompt
  analysis               \* outcome of analyze_with_gemini

vars == <<pc, user_api_key, selected_country_name, selected_lang_name,
          target_count, target_id, competitor_id, profile, entity, params,
          results, reviews_data, page_count, requests, pages, exit, ret,
          messages, results_store, prompt_context, prompt, analysis>>

inputs == <<user_api_key, selected_country_name, selected_lang_name,
            target_count, target_id, competitor_id, profile>>

fetchVars == <<params, results, reviews_data, page_count, requests, pages>>

geminiVars == <<prompt_context, prompt, analysis>>

country_code == COUNTRY_CODES[selected_country_name]
lang_code == LANGUAGE_CODES[selected_lang_name]

\* place id of the entity being fetched
PlaceOf(e) == IF e = target_name THEN target_id ELSE competitor_id

NoPrompt == [template |-> "none", lang |-> "", context |-> <<>>, points_for |-> <<>>]
NoAnalysis == [raised |-> FALSE, kind |-> "none", detail |-> ""]

\* a user-visible message: level, the entity it is emitted for, its text
Msg(level, about, text) == [level |-> level, about |-> about, text |-> text]

\* the script has run down to the button; the user has filled in the form
Init ==
  /\ pc = "button"
  /\ user_api_key \in {"", "key"}
  /\ selected_country_name \in DOMAIN COUNTRY_CODES
  /\ selected_lang_name \in DOMAIN LANGUAGE_CODES
  /\ target_count \in SliderValues
  /\ target_id \in {"", "ChIJ-main"}
  /\ competitor_id \in {"", "ChIJ-comp"}
  /\ profile \in [Entities -> RatingProfiles]
  /\ entity = target_name
  /\ params = InitialParams("", "", "", "")
  /\ results = NoResponse
  /\ reviews_data = <<>>
  /\ page_count = 0
  /\ requests = <<>>
  /\ pages = <<>>
  /\ exit = [e \in Entities |-> "none"]
  /\ ret = <<>>
  /\ messages = <<>>
  /\ results_store = <<>>
  /\ prompt_context = <<>>
  /\ prompt = NoPrompt
  /\ analysis = NoAnalysis

(* ------------------------ main flow: the button ------------------------ *)

\* if not user_api_key: st.warning(...)
WarnNoKey ==
  /\ pc = "button"
  /\ user_api_key = ""
  /\ messages' = Append(messages, Msg("warning", "form", "enter SerpApi key"))
  /\ pc' = "done"
  /\ UNCHANGED <<inputs, entity, fetchVars, exit, ret, results_store, geminiVars>>

\* elif not target_id: st.warning(...)
WarnNoPlaceId ==
  /\ pc = "button"
  /\ user_api_key # ""
  /\ target_id = ""
  /\ messages' = Append(messages, Msg("warning", "form", "enter a Place ID"))
  /\ pc' = "done"
  /\ UNCHANGED <<inputs, entity, fetchVars, exit, ret, results_store, geminiVars>>

\* else: results_store = {}; status.write("Fetching ..."); get_reviews(target_id, ...)
StartAnalysis ==
  /\ pc = "button"
  /\ user_api_key # ""
  /\ target_id # ""
  /\ results_store' = <<>>
  /\ entity' = target_name
  /\ messages' = Append(messages, Msg("info", target_name, "Fetching"))
  /\ pc' = "call"
  /\ UNCHANGED <<inputs, fetchVars, exit, ret, geminiVars>>

(* ----------------------------- get_reviews ----------------------------- *)

\* leaving the while loop: clear the progress widgets, return the DataFrame
Leave(how, data) ==
  /\ exit' = [exit EXCEPT ![entity] = how]
  /\ ret' = Truncate(data, target_count)
  /\ pc' = "returned"

\* entry of get_reviews up to the first response
FirstRequest ==
  /\ pc = "call"
  /\ LET p == InitialParams(PlaceOf(entity), user_api_key, country_code, lang_code)
     IN /\ params' = p
        /\ requests' = <<p>>
        /\ \E res \in Responses(p, profile[entity]) :
             /\ results' = res
             /\ pages' = <<res>>
  /\ reviews_data' = <<>>
  /\ page_count' = 0
  /\ pc' = "loop"
  /\ UNCHANGED <<inputs, entity, exit, ret, messages, results_store, geminiVars>>

\* the first search.get_dict() raises: st.error(...); return pd.DataFrame()
FirstRequestRaises ==
  /\ pc = "call"
  /\ LET p == InitialParams(PlaceOf(entity), user_api_key, country_code, lang_code)
     IN /\ params' = p
        /\ requests' = <<p>>
  /\ pages' = <<>>
  /\ reviews_data' = <<>>
  /\ page_count' = 0
  /\ results' = NoResponse
  /\ messages' = Append(messages, Msg("error", entity, "Error fetching data from SerpApi"))
  /\ exit' = [exit EXCEPT ![entity] = "first_raise"]
  /\ ret' = <<>>
  /\ pc' = "returned"
  /\ UNCHANGED <<inputs, entity, results_store, geminiVars>>

\* while page_count < max_pages: condition is false
LoopCap ==
  /\ pc = "loop"
  /\ ~(page_count < MaxPages(target_count))
  /\ Leave("cap", reviews_data)
  /\ UNCHANGED <<inputs, entity, fetchVars, messages, results_store, geminiVars>>

\* if "error" in results: st.error(...); break
LoopError ==
  /\ pc = "loop"
  /\ page_count < MaxPages(target_count)
  /\ results.error
  /\ messages' = Append(messages, Msg("error", entity, "SerpApi Error on page"))
  /\ Leave("error", reviews_data)
  /\ UNCHANGED <<inputs, entity, fetchVars, results_store, geminiVars>>

\* if not new_reviews: break
LoopEmpty ==
  /\ pc = "loop"
  /\ page_count < MaxPages(target_count)
  /\ ~results.error
  /\ StopOnEmpty(results.reviews)
  /\ Leave("empty", reviews_data)
  /\ UNCHANGED <<inputs, entity, fetchVars, messages, results_store, geminiVars>>

\* append; if len(reviews_data) >= target_count: break
LoopTarget ==
  /\ pc = "loop"
  /\ page_count < MaxPages(target_count)
  /\ ~results.error
  /\ ~StopOnEmpty(results.reviews)
  /\ LET data == AppendReviews(reviews_data, results.reviews)
     IN /\ StopOnTarget(data, target_count)
        /\ reviews_data' = data
        /\ Leave("target", data)
  /\ UNCHANGED <<inputs, entity, params, results, page_count, requests, pages,
                 messages, results_store, geminiVars>>

\* append; no serpapi_pagination / no next_page_token: break
LoopNoToken ==
  /\ pc = "loop"
  /\ page_count < MaxPages(target_count)
  /\ ~results.error
  /\ ~StopOnEmpty(results.reviews)
  /\ LET data == AppendReviews(reviews_data, results.reviews)
     IN /\ ~StopOnTarget(data, target_count)
        /\ ~HasNextToken(results)
        /\ reviews_data' = data
        /\ Leave("no_token", data)
  /\ UNCHANGED <<inputs, entity, params, results, page_count, requests, pages,
                 messages, results_store, geminiVars>>

\* append; page_count += 1; update the token; request the next page
LoopNextPage ==
  /\ pc = "loop"
  /\ page_count < MaxPages(target_count)
  /\ ~results.error
  /\ ~StopOnEmpty(results.reviews)
  /\ LET data == AppendReviews(reviews_data, results.reviews)
         p    == NextParams(params, results)
     IN /\ ~StopOnTarget(data, target_count)
        /\ HasNextToken(results)
        /\ reviews_data' = data
        /\ page_count' = page_count + 1
        /\ params' = p
        /\ requests' = Append(requests, p)
        /\ \E res \in Responses(p, profile[entity]) :
             /\ results' = res
             /\ pages' = Append(pages, res)
  /\ UNCHANGED <<pc, inputs, entity, exit, ret, messages, results_store, geminiVars>>

\* as LoopNextPage, but search.get_dict() raises: the exception leaves
\* get_reviews and the `with st.status` block
LoopNextPageRaises ==
  /\ pc = "loop"
  /\ page_count < MaxPages(target_count)
  /\ ~results.error
  /\ ~StopOnEmpty(results.reviews)
  /\ LET data == AppendReviews(reviews_data, results.reviews)
         p    == NextParams(params, results)
     IN /\ ~StopOnTarget(data, target_count)
        /\ HasNextToken(results)
        /\ reviews_data' = data
        /\ page_count' = page_count + 1
        /\ params' = p
        /\ requests' = Append(requests, p)
  /\ exit' = [exit EXCEPT ![entity] = "raised"]
  /\ pc' = "except"
  /\ UNCHANGED <<inputs, entity, results, pages, ret, messages, results_store,
                 geminiVars>>

(* --------------------- main flow after get_reviews --------------------- *)

\* if not df_target.empty: store it, then either start the competitor fetch
\* (if competitor_id) or finish scraping
TargetLoaded ==
  /\ pc = "returned"
  /\ entity = target_name
  /\ ret # <<>>
  /\ results_store' = Append(results_store, [name |-> target_name, df |-> ret])
  /\ IF competitor_id # ""
     THEN /\ messages' = messages \o <<Msg("info", target_name, "Loaded"),
                                      Msg("info", competitor_name, "Fetching")>>
          /\ entity' = competitor_name
          /\ pc' = "call"
     ELSE /\ messages' = messages \o <<Msg("info", target_name, "Loaded"),
                                      Msg("info", "run", "Scraping Complete")>>
          /\ entity' = entity
          /\ pc' = "analyze"
  /\ UNCHANGED <<inputs, fetchVars, exit, ret, geminiVars>>

\* else: status.update(state="error"); st.error("No reviews found..."); st.stop()
TargetEmpty ==
  /\ pc = "returned"
  /\ entity = target_name
  /\ ret = <<>>
  /\ messages' = Append(messages, Msg("error", target_name, "No reviews found"))
  /\ pc' = "stopped"
  /\ UNCHANGED <<inputs, entity, fetchVars, exit, ret, results_store, geminiVars>>

\* if not df_comp.empty: store it; status.update(state="complete")
CompetitorReturned ==
  /\ pc = "returned"
  /\ entity = competitor_name
  /\ IF ret # <<>>
     THEN /\ results_store' =
               Append(results_store, [name |-> competitor_name, df |-> ret])
          /\ messages' = messages \o <<Msg("info", competitor_name, "Loaded"),
                                      Msg("info", "run", "Scraping Complete")>>
     ELSE /\ results_store' = results_store
          /\ messages' = Append(messages, Msg("info", "run", "Scraping Complete"))
  /\ pc' = "analyze"
  /\ UNCHANGED <<inputs, entity, fetchVars, exit, ret, geminiVars>>

\* except Exception as e: st.error(f"An error occurred: {e}")
HandleException ==
  /\ pc = "except"
  /\ messages' = Append(messages,
       Msg("error", IF exit[entity] = "raised" THEN entity ELSE "analysis",
           "An error occurred"))
  /\ pc' = "done"
  /\ UNCHANGED <<inputs, entity, fetchVars, exit, ret, results_store, geminiVars>>

(* ------------------------- analyze_with_gemini ------------------------- *)

\* genai.configure, the loop over data_dict.items(), the choice of template
AssemblePrompt ==
  /\ pc = "analyze"
  /\ LET ctx == PromptContext(<<>>, results_store)
     IN /\ prompt_context' = ctx
        /\ prompt' = BuildPrompt(results_store, ctx, selected_lang_name)
  /\ pc' = "generate"
  /\ UNCHANGED <<inputs, entity, fetchVars, exit, ret, messages, results_store,
                 analysis>>

\* try: model.generate_content(prompt) ... except: return "AI Error: ..."
\* then st.markdown(analysis) and the raw-data expander
Generate ==
  /\ pc = "generate"
  /\ \E outcome \in GeminiOutcomes :
       LET res == GenerateResult(outcome)
       IN /\ analysis' = res
          /\ pc' = IF res.raised THEN "except" ELSE "done"
  /\ UNCHANGED <<inputs, entity, fetchVars, exit, ret, messages, results_store,
                 prompt_context, prompt>>

(* --------------------------- specifications ---------------------------- *)

Next ==
  \/ WarnNoKey
  \/ WarnNoPlaceId
  \/ StartAnalysis
  \/ FirstRequest
  \/ FirstRequestRaises
  \/ LoopCap
  \/ LoopError
  \/ LoopEmpty
  \/ LoopTarget
  \/ LoopNoToken
  \/ LoopNextPage
  \/ LoopNextPageRaises
  \/ TargetLoaded
  \/ TargetEmpty
  \/ CompetitorReturned
  \/ HandleException
  \/ AssemblePrompt
  \/ Generate

Spec == Init /\ [][Next]_vars

(* ------------------------- history vocabulary -------------------------- *)

\* requests and pages are the logs of the get_reviews call of `entity`
LogsCurrent == pc \notin {"button", "call"}

\* get_reviews has returned for `entity`, and ret is what it returned
Returned == LogsCurrent /\ exit[entity] \notin {"none", "raised"}

RECURSIVE RecordsOf(_)
\* the records of a sequence of pages, concatenated in the order received
RecordsOf(pp) ==
  IF pp = <<>> THEN <<>>
  ELSE AppendReviews(<<>>, Head(pp).reviews) \o RecordsOf(Tail(pp))

IsPrefix(a, b) == Len(a) <= Len(b) /\ a = SubSeq(b, 1, Len(a))

\* the source answered every request, without errors, with non-empty pages
\* of at most PageSize records
Honest ==
  /\ exit[entity] \notin {"first_raise", "raised"}
  /\ pages # <<>>
  /\ \A i \in 1..Len(pages) :
       /\ ~pages[i].error
       /\ Len(pages[i].reviews) \in 1..PageSize

\* the last page delivered tells that the feed is over
FeedOver == pages # <<>> /\ ~HasNextToken(pages[Len(pages)])

\* a user-visible error or warning for entity e has been emitted
Alerted(e) ==
  \E i \in 1..Len(messages) :
    messages[i].about = e /\ messages[i].level \in {"error", "warning"}

\* the DataFrame of entity e did not make it into the analysis
NotStored(e) == \A i \in 1..Len(results_store) : results_store[i].name # e

(* ------------------------------- claims -------------------------------- *)

\* C1: one call of get_reviews issues at most ceil(targetCount / 10) page
\* requests, the first request and every continuation request counted.
C1_RequestBound == Len(requests) <= CeilDiv(target_count, PageSize)

\* C2: when the source holds at least targetCount records and answers
\* without errors in non-empty pages of at most 10 records, get_reviews
\* returns exactly targetCount records.
C2_ExactTarget ==
  (Returned /\ Honest /\ Len(RecordsOf(pages)) >= target_count)
    => Len(ret) = target_count

\* C3: when the source holds fewer than targetCount records and answers
\* without errors in non-empty pages of at most 10 records, get_reviews
\* returns all of them in source order and stops because the source is
\* exhausted, not because of the target or the page cap.
C3_AllAvailable ==
  (Returned /\ Honest /\ FeedOver /\ Len(RecordsOf(pages)) < target_count)
    => /\ ret = RecordsOf(pages)
       /\ exit[entity] \in {"empty", "no_token"}

\* C4: if a page request after the first fails (error response, or the
\* request raises), get_reviews stops, does not retry, and still returns the
\* records accumulated from the earlier pages.
C4_PartialKept ==
  (/\ LogsCurrent
   /\ Len(requests) >= 2
   /\ exit[entity] \in {"error", "raised"})
    => /\ Returned
       /\ ret = reviews_data
       /\ Len(requests) = page_count + 1

\* C5: when the run has ended, every entity whose fetch ended with an error
\* or without reviewable records has a user-visible error or warning.
C5_NoSilentFailure ==
  pc \in {"done", "stopped"}
    => \A e \in Entities :
         (/\ exit[e] # "none"
          /\ (exit[e] \in {"first_raise", "error", "raised"} \/ NotStored(e)))
           => Alerted(e)

\* C6: a page response with zero records ends the fetch: no request follows
\* it, even when it carries a continuation token, and get_reviews returns
\* exactly the records of the pages before it.
C6_EmptyPageEnds ==
  LogsCurrent =>
    \A i \in 1..Len(pages) :
      Len(pages[i].reviews) = 0
        => /\ i = Len(pages)
           /\ Len(requests) = i
           /\ Returned => ret = RecordsOf(SubSeq(pages, 1, i - 1))

C6_Witness ==
  /\ Returned
  /\ Len(pages) >= 2
  /\ Len(pages[Len(pages)].reviews) = 0
  /\ HasNextToken(pages[Len(pages)])
  /\ exit[entity] = "empty"
  /\ ret # <<>>

\* C7: what get_reviews returns has at most targetCount records and is a
\* prefix, in the order received, of the records of the delivered pages.
C7_BoundedPrefix ==
  Returned => /\ Len(ret) <= target_count
              /\ IsPrefix(ret, RecordsOf(pages))

C7_Witness ==
  /\ Returned
  /\ Len(reviews_data) > target_count
  /\ Len(ret) = target_count
  /\ Len(pages) >= 2

\* C8: when the summarization call fails, analyze_with_gemini does not
\* raise; it returns an error-message text, which the caller displays.
C8_FailureIsText ==
  analysis # NoAnalysis
    => /\ ~analysis.raised
       /\ pc = "done"
       /\ analysis.detail # "ok" => analysis.kind = "AI Error"

C8_Witness ==
  /\ pc = "done"
  /\ analysis.kind = "AI Error"
  /\ analysis.detail = "quota"

\* C9: the prompt context has exactly one section per entity, headed by the
\* (upper-cased) label and in mapping order; an entity without a record of
\* rating 1..3 gets a placeholder section; two entities select the
\* comparison template.
C9_SectionPerEntity ==
  prompt # NoPrompt
    => /\ Len(prompt.context) = Len(results_store)
       /\ \A i \in 1..Len(results_store) :
            LET df  == results_store[i].df
                sec == prompt.context[i]
            IN /\ sec.header = Upper(results_store[i].name)
               /\ sec.placeholder
                    <=> ~\E j \in 1..Len(df) : df[j].rating \in 1..NegThreshold
       /\ Len(results_store) = 2 => prompt.template = "comparison"
       /\ Len(results_store) = 1 => prompt.template = "single"

C9_Witness ==
  /\ prompt.template = "comparison"
  /\ Len(prompt.context) = 2
  /\ prompt.context[1].placeholder
  /\ ~prompt.context[2].placeholder
  /\ \E j \in 1..Len(results_store[1].df) : results_store[1].df[j].rating = NoRating

\* C10: the first request of a fetch carries no token; every later request
\* carries the token of the response just before it, which belongs to the
\* same entity, together with the original place id, region and language.
C10_TokenChain ==
  LogsCurrent =>
    \A i \in 1..Len(requests) :
      /\ requests[i].place_id = PlaceOf(entity)
      /\ requests[i].gl = country_code
      /\ requests[i].hl = lang_code
      /\ i = 1 => requests[i].next_page_token = NoToken
      /\ i > 1 => /\ requests[i].next_page_token = pages[i - 1].token
                  /\ requests[i].next_page_token # NoToken
                  /\ requests[i].next_page_token.place = PlaceOf(entity)

C10_Witness ==
  /\ LogsCurrent
  /\ entity = competitor_name
  /\ NotStored(competitor_name) = FALSE
  /\ Len(requests) = 3
  /\ requests[3].next_page_token.place = competitor_id
  /\ requests[3].next_page_token # requests[2].next_page_token

====
